---------------------------- MODULE Spec2Model ----------------------------
(***************************************************************************)
(* Outlier Earnings Analyzer (src/app.py): one Streamlit script run per    *)
(* upload.  The run reads the CSV, checks its columns, converts payout and *)
(* workDate, drops rows without a date, sorts, groups by day, computes the *)
(* metrics and the pay period, and renders three cards and one expander    *)
(* per day.  Every exception raised inside the try block ends the run with *)
(* st.error, after whatever was rendered before it.                        *)
(*                                                                         *)
(* Cell texts are sequences of one-character strings.  Amounts are held in *)
(* cents (the input alphabet has at most two decimals), dates as proleptic *)
(* Gregorian ordinals (datetime.date.toordinal), the average as an exact   *)
(* fraction.                                                               *)
(***************************************************************************)
EXTENDS Integers, Sequences, FiniteSets, TLC

(***************************************************************************)
(* Bounds of the explored inputs.                                          *)
(***************************************************************************)
MaxRows == 2
\* rows of the tables whose header lacks a column (the run never reads them)
MaxRowsBadHeader == 1
\* work dates of the input alphabet: Dec FirstDay, 2024 .. Dec LastDay, 2024
FirstDay == 9
LastDay == 16

(***************************************************************************)
(* Text helpers.                                                           *)
(***************************************************************************)
DigitChars == <<"0", "1", "2", "3", "4", "5", "6", "7", "8", "9">>

IsDigit(c) == \E i \in 1..10 : DigitChars[i] = c

DigitVal(c) == (CHOOSE i \in 1..10 : DigitChars[i] = c) - 1

AllDigits(s) == \A i \in 1..Len(s) : IsDigit(s[i])

RECURSIVE ParseInt(_)
ParseInt(s) ==
    IF s = <<>> THEN 0
    ELSE ParseInt(SubSeq(s, 1, Len(s) - 1)) * 10 + DigitVal(s[Len(s)])

RECURSIVE IntText(_)
\* decimal digits of a natural number
IntText(n) ==
    IF n < 10 THEN <<DigitChars[n + 1]>>
    ELSE IntText(n \div 10) \o <<DigitChars[(n % 10) + 1]>>

\* zero-padded to two digits, as %d
TwoDigits(n) == IF n < 10 THEN <<"0">> \o IntText(n) ELSE IntText(n)

\* first index >= i of s that holds c, or 0
IndexFrom(s, c, i) ==
    LET K == {k \in i..Len(s) : s[k] = c}
    IN  IF K = {} THEN 0 ELSE CHOOSE k \in K : \A j \in K : k <= j

(***************************************************************************)
(* Calendar: datetime's proleptic Gregorian ordinal and weekday.           *)
(***************************************************************************)
MonthAbbr ==
    << <<"J","a","n">>, <<"F","e","b">>, <<"M","a","r">>, <<"A","p","r">>,
       <<"M","a","y">>, <<"J","u","n">>, <<"J","u","l">>, <<"A","u","g">>,
       <<"S","e","p">>, <<"O","c","t">>, <<"N","o","v">>, <<"D","e","c">> >>

IsLeap(y) == (y % 4 = 0) /\ ((y % 100 # 0) \/ (y % 400 = 0))

DaysInMonth(y, m) ==
    IF m = 2 THEN (IF IsLeap(y) THEN 29 ELSE 28)
    ELSE IF m \in {4, 6, 9, 11} THEN 30 ELSE 31

RECURSIVE DaysBeforeMonth(_, _)
DaysBeforeMonth(y, m) ==
    IF m = 1 THEN 0 ELSE DaysBeforeMonth(y, m - 1) + DaysInMonth(y, m - 1)

DaysBeforeYear(y) ==
    (y - 1) * 365 + ((y - 1) \div 4) - ((y - 1) \div 100) + ((y - 1) \div 400)

Ymd2Ord(y, m, d) == DaysBeforeYear(y) + DaysBeforeMonth(y, m) + d

OrdYear(n) ==
    CHOOSE y \in ((n \div 366) - 1)..((n \div 365) + 1) :
        DaysBeforeYear(y) < n /\ n <= DaysBeforeYear(y + 1)

OrdMonth(n) ==
    LET y == OrdYear(n)
        r == n - DaysBeforeYear(y)
    IN  CHOOSE m \in 1..12 :
            DaysBeforeMonth(y, m) < r /\ r <= DaysBeforeMonth(y, m) + DaysInMonth(y, m)

OrdDay(n) == n - DaysBeforeYear(OrdYear(n)) - DaysBeforeMonth(OrdYear(n), OrdMonth(n))

\* pandas.NaT, the missing timestamp (no date has ordinal 0)
NaT == 0
\* float nan, what NaT.weekday() returns
NaN == -1

\* Timestamp.weekday(): Monday = 0 .. Sunday = 6; nan for NaT
Weekday(ts) == IF ts = NaT THEN NaN ELSE (ts + 6) % 7

\* Timestamp +/- pd.Timedelta(days = n); NaT absorbs
PlusDays(ts, n) == IF ts = NaT THEN NaT ELSE ts + n

\* comparisons with NaT or nan are False
TsGe(a, b) == a # NaT /\ b # NaT /\ a >= b
TsLe(a, b) == a # NaT /\ b # NaT /\ a <= b
NumGe(a, b) == a # NaN /\ a >= b

\* Timestamp.strftime('%b %d, %Y') is defined for real timestamps only
CanStrftime(ts) == ts # NaT

Strftime(ts) ==
    MonthAbbr[OrdMonth(ts)] \o <<" ">> \o TwoDigits(OrdDay(ts))
        \o <<",", " ">> \o IntText(OrdYear(ts))


(***************************************************************************)
(* pd.to_datetime(text, format='%b %d, %Y', errors='coerce') on one cell:  *)
(* the whole text has to match  <month abbr> \s+ <day> , \s+ <4 digits>    *)
(* and name a real calendar day; anything else is coerced to NaT.  (Month  *)
(* names in other letter case and years outside the Timestamp range are    *)
(* not in the input alphabet.)                                             *)
(***************************************************************************)
\* first index >= i of s that is not a blank, Len(s) + 1 when there is none
FirstNonSpace(s, i) ==
    LET K == {k \in i..Len(s) : s[k] # " "}
    IN  IF K = {} THEN Len(s) + 1 ELSE CHOOSE k \in K : \A j \in K : k <= j

\* the month whose abbreviation opens s, or 0
MonthOf(s) ==
    LET h == SubSeq(s, 1, 3)
        M == {m \in 1..12 : MonthAbbr[m] = h}
    IN  IF Len(s) < 3 \/ M = {} THEN 0 ELSE CHOOSE m \in M : TRUE

ParseDate(s) ==
    LET m  == MonthOf(s)
        p  == FirstNonSpace(s, 4)
        c  == IndexFrom(s, ",", p)
        dt == SubSeq(s, p, c - 1)
        q  == FirstNonSpace(s, c + 1)
        yt == SubSeq(s, q, Len(s))
        d  == ParseInt(dt)
        y  == ParseInt(yt)
    IN  IF /\ m # 0
           /\ p > 4
           /\ c # 0
           /\ Len(dt) \in 1..2 /\ AllDigits(dt) /\ d \in 1..31
           /\ q > c + 1
           /\ Len(yt) = 4 /\ AllDigits(yt) /\ y >= 1
           /\ d <= DaysInMonth(y, m)
        THEN Ymd2Ord(y, m, d)
        ELSE NaT

(***************************************************************************)
(* payout: .replace('[\$,]', '', regex=True).astype(float) on one cell.    *)
(* float() is modelled on the texts  [sign] digits [. digits].             *)
(***************************************************************************)
StripCurrency(s) == SelectSeq(s, LAMBDA c : c \notin {"$", ","})

Unsigned(s) == IF s # <<>> /\ s[1] \in {"+", "-"} THEN Tail(s) ELSE s

IntPart(s) ==
    LET b == Unsigned(s) d == IndexFrom(b, ".", 1)
    IN  IF d = 0 THEN b ELSE SubSeq(b, 1, d - 1)

FracPart(s) ==
    LET b == Unsigned(s) d == IndexFrom(b, ".", 1)
    IN  IF d = 0 THEN <<>> ELSE SubSeq(b, d + 1, Len(b))

\* float(s) succeeds
IsFloat(s) ==
    /\ AllDigits(IntPart(s))
    /\ AllDigits(FracPart(s))
    /\ Len(IntPart(s)) + Len(FracPart(s)) > 0

\* float(s) in cents
ToFloat(s) ==
    LET f  == FracPart(s) \o <<"0", "0">>
        v  == ParseInt(IntPart(s)) * 100 + ParseInt(SubSeq(f, 1, 2))
    IN  IF s # <<>> /\ s[1] = "-" THEN 0 - v ELSE v

(***************************************************************************)
(* DataFrame: [columns |-> names, data |-> rows], a row being the sequence *)
(* of its cells in column order.                                           *)
(***************************************************************************)
HasColumn(frame, name) == \E i \in 1..Len(frame.columns) : frame.columns[i] = name

ColIndex(frame, name) == CHOOSE i \in 1..Len(frame.columns) : frame.columns[i] = name

\* df[name] as the sequence of that column's cells
Column(frame, name) ==
    [i \in 1..Len(frame.data) |-> frame.data[i][ColIndex(frame, name)]]

\* df[name] = values
SetColumn(frame, name, values) ==
    [frame EXCEPT !.data =
        [i \in 1..Len(frame.data) |->
            [frame.data[i] EXCEPT ![ColIndex(frame, name)] = values[i]]]]

RECURSIVE SumSeq(_)
\* Series.sum(); 0 for the empty series
SumSeq(s) == IF s = <<>> THEN 0 ELSE s[1] + SumSeq(Tail(s))

required_columns == <<"workDate", "payout">>

\* mutation: any() in place of all()
ColumnsPresent_Any(frame) ==
    \E i \in 1..Len(required_columns) : HasColumn(frame, required_columns[i])

\* all(col in df.columns for col in required_columns)
ColumnsPresent(frame) ==
    \A i \in 1..Len(required_columns) : HasColumn(frame, required_columns[i])

\* astype(float) raises ValueError on the first text that is no number
PayoutConvertible(frame) ==
    \A i \in 1..Len(frame.data) : IsFloat(StripCurrency(Column(frame, "payout")[i]))

CleanPayout(frame) ==
    SetColumn(frame, "payout",
        [i \in 1..Len(frame.data) |-> ToFloat(StripCurrency(Column(frame, "payout")[i]))])

ConvertWorkDate(frame) ==
    SetColumn(frame, "workDate",
        [i \in 1..Len(frame.data) |-> ParseDate(Column(frame, "workDate")[i])])

\* df.dropna(subset=['workDate'])
DropNa(frame) ==
    [frame EXCEPT !.data =
        SelectSeq(frame.data, LAMBDA r : r[ColIndex(frame, "workDate")] # NaT)]


\* mutation: ascending=True
SortedOrders_Ascending(frame) ==
    LET n == Len(frame.data)
        c == ColIndex(frame, "workDate")
        Perms == {f \in [1..n -> 1..n] : \A i, j \in 1..n : i # j => f[i] # f[j]}
    IN  { [i \in 1..n |-> frame.data[f[i]]] : f \in
            {g \in Perms : \A i \in 1..(n - 1) :
                frame.data[g[i]][c] <= frame.data[g[i + 1]][c]} }

\* the row orders df.sort_values('workDate', ascending=False) may produce:
\* dates descending; the default quicksort fixes no order among equal dates
SortedOrders(frame) ==
    LET n == Len(frame.data)
        c == ColIndex(frame, "workDate")
        Perms == {f \in [1..n -> 1..n] : \A i, j \in 1..n : i # j => f[i] # f[j]}
    IN  { [i \in 1..n |-> frame.data[f[i]]] : f \in
            {g \in Perms : \A i \in 1..(n - 1) :
                frame.data[g[i]][c] >= frame.data[g[i + 1]][c]} }

RECURSIVE FirstSeen(_)
\* the distinct values of s in the order of their first appearance
FirstSeen(s) ==
    IF s = <<>> THEN <<>>
    ELSE LET f == FirstSeen(SubSeq(s, 1, Len(s) - 1))
         IN  IF \E i \in 1..Len(f) : f[i] = s[Len(s)] THEN f
             ELSE Append(f, s[Len(s)])

\* mutation: each group keeps the first row of its date only
GroupBy_FirstRowOnly(frame) ==
    LET keys == FirstSeen(Column(frame, "workDate"))
    IN  [k \in 1..Len(keys) |->
            [name  |-> keys[k],
             group |-> [frame EXCEPT !.data =
                          SubSeq(SelectSeq(frame.data,
                              LAMBDA r : r[ColIndex(frame, "workDate")] = keys[k]),
                              1, 1)]]]

\* df.groupby(df['workDate'].dt.date, sort=False): (name, group) pairs
GroupBy(frame) ==
    LET keys == FirstSeen(Column(frame, "workDate"))
    IN  [k \in 1..Len(keys) |->
            [name  |-> keys[k],
             group |-> [frame EXCEPT !.data =
                          SelectSeq(frame.data,
                              LAMBDA r : r[ColIndex(frame, "workDate")] = keys[k])]]]

\* mutation: the number of rows in place of the number of groups
NumberOfGroups_Rows(groups) ==
    SumSeq([i \in 1..Len(groups) |-> Len(groups[i].group.data)])

\* grouped.ngroups
NumberOfGroups(groups) == Len(groups)

RECURSIVE Gcd(_, _)
Gcd(a, b) == IF b = 0 THEN a ELSE Gcd(b, a % b)

Abs(a) == IF a < 0 THEN 0 - a ELSE a

\* a / b (b > 0) as the fraction <<numerator, denominator>> in lowest terms
Quotient(a, b) ==
    LET g == Gcd(Abs(a), b) IN <<a \div g, b \div g>>

\* total_earnings / number_of_groups if number_of_groups > 0 else 0
AverageEarnings(total, groups) ==
    IF groups > 0 THEN Quotient(total, groups) ELSE <<0, 1>>

\* Series.max(): NaT for the empty series
MaxDate(s) ==
    IF s = <<>> THEN NaT
    ELSE CHOOSE d \in {s[i] : i \in 1..Len(s)} : \A i \in 1..Len(s) : s[i] <= d

\* mutation: Monday treated like the other days
PayPeriodStart_NoMondayCase(most_recent, dow) ==
    PlusDays(most_recent, 0 - (dow - 1))

PayPeriodStart(most_recent, dow) ==
    IF NumGe(dow, 1) THEN PlusDays(most_recent, 0 - (dow - 1))
    ELSE PlusDays(most_recent, 0 - 6)

PayPeriodEnd(start) == PlusDays(start, 6)

\* mutation: > in place of >= at the start of the window
CurrentPayPeriod_StartExcluded(frame, start, end) ==
    LET c == ColIndex(frame, "workDate")
        inWindow == [frame EXCEPT !.data =
                        SelectSeq(frame.data,
                            LAMBDA r : r[c] # start /\ TsGe(r[c], start)
                                           /\ TsLe(r[c], end))]
    IN  SumSeq(Column(inWindow, "payout"))

\* df[(df['workDate'] >= start) & (df['workDate'] <= end)]['payout'].sum()
CurrentPayPeriod(frame, start, end) ==
    LET c == ColIndex(frame, "workDate")
        inWindow == [frame EXCEPT !.data =
                        SelectSeq(frame.data,
                            LAMBDA r : TsGe(r[c], start) /\ TsLe(r[c], end))]
    IN  SumSeq(Column(inWindow, "payout"))


(***************************************************************************)
(* The uploads explored: the empty file, every table of at most MaxRows    *)
(* rows under the right header, and tables under a header with one of the  *)
(* two names in another letter case.                                       *)
(***************************************************************************)
DateText(d) == <<"D", "e", "c", " ">> \o IntText(d) \o <<",", " ", "2", "0", "2", "4">>

BadDateTexts ==
    { <<"2", "0", "2", "4", "-", "1", "2", "-", "1", "0">>,
      <<"D", "e", "c", " ", "3", "2", ",", " ", "2", "0", "2", "4">> }

DateTexts == {DateText(d) : d \in FirstDay..LastDay} \cup BadDateTexts

PayoutTexts ==
    { <<"$", "1", ",", "2", "3", "4", ".", "5", "0">>,
      <<"-", "2", "0">>,
      <<"1", "2", "x">> }

GoodHeader == <<"workDate", "payout">>

BadHeaders == { <<"workdate", "payout">>, <<"workDate", "Payout">> }

RowTexts == {<<d, p>> : d \in DateTexts, p \in PayoutTexts}

EmptyFile == [columns |-> <<>>, data |-> <<>>]

Tables(h, n) ==
    { [columns |-> h, data |-> rows] : rows \in UNION {[1..k -> RowTexts] : k \in 0..n} }

Files ==
    {EmptyFile} \cup Tables(GoodHeader, MaxRows)
        \cup UNION {Tables(h, MaxRowsBadHeader) : h \in BadHeaders}

(***************************************************************************)
(* What the page shows: the elements rendered so far, in order.  A card    *)
(* or expander carries the values its text is formatted from.              *)
(***************************************************************************)
Info == [kind |-> "info", text |-> "Awaiting CSV file upload."]

SchemaError ==
    [kind |-> "error",
     text |-> "The CSV file must contain 'workDate' and 'payout' columns."]

ProcessingError(cause) ==
    [kind |-> "error", text |-> "An error occurred while processing the file: ",
     cause |-> cause]

Card(title, caption, value) ==
    [kind |-> "card", title |-> title, caption |-> caption, value |-> value]

Separator == [kind |-> "separator"]

Expander(formatted_date, total_payout, group) ==
    [kind |-> "expander", formatted_date |-> formatted_date,
     total_payout |-> total_payout, rows |-> group.data]

VARIABLES
    uploaded_file,        \* <<>> for None, <<file>> for an upload
    pc,                   \* the statement the run is at
    df,
    grouped,
    total_earnings,
    number_of_groups,
    average_earnings,
    most_recent_date,
    day_of_week,
    pay_period_start,
    pay_period_end,
    current_pay_period,
    it,                   \* position of "for name, group in grouped"
    display,              \* the elements on the page
    previous              \* history: <<>>, or what the page showed before the file
                          \* was uploaded again with one more row, and that row

locals ==
    <<df, grouped, total_earnings, number_of_groups, average_earnings,
      most_recent_date, day_of_week, pay_period_start, pay_period_end,
      current_pay_period, it>>

vars == <<uploaded_file, pc, locals, display, previous>>

\* a run starts with no local bound
Fresh ==
    /\ df = EmptyFile
    /\ grouped = <<>>
    /\ total_earnings = 0
    /\ number_of_groups = 0
    /\ average_earnings = <<0, 1>>
    /\ most_recent_date = NaT
    /\ day_of_week = NaN
    /\ pay_period_start = NaT
    /\ pay_period_end = NaT
    /\ current_pay_period = 0
    /\ it = 0

\* the run without a file: st.info
Init ==
    /\ uploaded_file = <<>>
    /\ pc = "awaiting"
    /\ Fresh
    /\ display = <<Info>>
    /\ previous = <<>>

\* except Exception as e: st.error(...); the run ends
Raise(cause) ==
    /\ display' = Append(display, ProcessingError(cause))
    /\ pc' = "done"
    /\ UNCHANGED <<uploaded_file, previous, locals>>

\* the user drops a file on the uploader; the script reruns on a clean page
Upload ==
    /\ pc = "awaiting"
    /\ \E f \in Files : uploaded_file' = <<f>>
    /\ pc' = "read_csv"
    /\ display' = <<>>
    /\ previous' = <<>>
    /\ UNCHANGED locals

\* df = pd.read_csv(uploaded_file)
ReadCsv ==
    /\ pc = "read_csv"
    /\ IF uploaded_file[1].columns = <<>>
       THEN Raise("No columns to parse from file")
       ELSE /\ df' = uploaded_file[1]
            /\ pc' = "check_columns"
            /\ UNCHANGED <<uploaded_file, previous, grouped, total_earnings, number_of_groups,
                           average_earnings, most_recent_date, day_of_week,
                           pay_period_start, pay_period_end, current_pay_period,
                           it, display>>

\* if not all(col in df.columns ...): st.error(...)
CheckColumns ==
    /\ pc = "check_columns"
    /\ IF ~ColumnsPresent(df)
       THEN /\ display' = Append(display, SchemaError)
            /\ pc' = "done"
       ELSE /\ pc' = "payout"
            /\ UNCHANGED display
    /\ UNCHANGED <<uploaded_file, previous, locals>>

\* mutation: a payout that is no number drops its row instead of raising
ConvertPayout_DropBadRows ==
    /\ pc = "payout"
    /\ IF ~HasColumn(df, "payout")
       THEN Raise("KeyError: 'payout'")
       ELSE /\ df' = CleanPayout([df EXCEPT !.data =
                        SelectSeq(df.data,
                            LAMBDA r : IsFloat(StripCurrency(r[ColIndex(df, "payout")])))])
            /\ pc' = "workDate"
            /\ UNCHANGED <<uploaded_file, previous, grouped, total_earnings, number_of_groups,
                           average_earnings, most_recent_date, day_of_week,
                           pay_period_start, pay_period_end, current_pay_period,
                           it, display>>

\* df['payout'] = df['payout'].replace(...).astype(float)
ConvertPayout ==
    /\ pc = "payout"
    /\ IF ~HasColumn(df, "payout")
       THEN Raise("KeyError: 'payout'")
       ELSE IF ~PayoutConvertible(df)
       THEN Raise("could not convert string to float")
       ELSE /\ df' = CleanPayout(df)
            /\ pc' = "workDate"
            /\ UNCHANGED <<uploaded_file, previous, grouped, total_earnings, number_of_groups,
                           average_earnings, most_recent_date, day_of_week,
                           pay_period_start, pay_period_end, current_pay_period,
                           it, display>>

\* mutation: to_datetime without errors='coerce' raises on an unparsable date
ConvertDates_NoCoerce ==
    /\ pc = "workDate"
    /\ IF ~HasColumn(df, "workDate")
       THEN Raise("KeyError: 'workDate'")
       ELSE IF \E i \in 1..Len(df.data) : ParseDate(Column(df, "workDate")[i]) = NaT
       THEN Raise("time data doesn't match format")
       ELSE /\ df' = DropNa(ConvertWorkDate(df))
            /\ pc' = "sort"
            /\ UNCHANGED <<uploaded_file, previous, grouped, total_earnings,
                           number_of_groups, average_earnings, most_recent_date,
                           day_of_week, pay_period_start, pay_period_end,
                           current_pay_period, it, display>>

\* df['workDate'] = pd.to_datetime(...); df = df.dropna(subset=['workDate'])
ConvertDates ==
    /\ pc = "workDate"
    /\ IF ~HasColumn(df, "workDate")
       THEN Raise("KeyError: 'workDate'")
       ELSE /\ df' = DropNa(ConvertWorkDate(df))
            /\ pc' = "sort"
            /\ UNCHANGED <<uploaded_file, previous, grouped, total_earnings,
                           number_of_groups, average_earnings, most_recent_date,
                           day_of_week, pay_period_start, pay_period_end,
                           current_pay_period, it, display>>

\* df = df.sort_values('workDate', ascending=False)
SortValues ==
    /\ pc = "sort"
    /\ \E rows \in SortedOrders(df) : df' = [df EXCEPT !.data = rows]
    /\ pc' = "aggregate"
    /\ UNCHANGED <<uploaded_file, previous, grouped, total_earnings, number_of_groups,
                   average_earnings, most_recent_date, day_of_week,
                   pay_period_start, pay_period_end, current_pay_period,
                   it, display>>

\* grouped, total_earnings, number_of_groups, average_earnings
Aggregate ==
    /\ pc = "aggregate"
    /\ grouped' = GroupBy(df)
    /\ total_earnings' = SumSeq(Column(df, "payout"))
    /\ number_of_groups' = NumberOfGroups(grouped')
    /\ average_earnings' = AverageEarnings(total_earnings', number_of_groups')
    /\ pc' = "pay_period"
    /\ UNCHANGED <<uploaded_file, previous, df, most_recent_date, day_of_week,
                   pay_period_start, pay_period_end, current_pay_period,
                   it, display>>

\* most_recent_date .. current_pay_period
PayPeriod ==
    /\ pc = "pay_period"
    /\ most_recent_date' = MaxDate(Column(df, "workDate"))
    /\ day_of_week' = Weekday(most_recent_date')
    /\ pay_period_start' = PayPeriodStart(most_recent_date', day_of_week')
    /\ pay_period_end' = PayPeriodEnd(pay_period_start')
    /\ current_pay_period' = CurrentPayPeriod(df, pay_period_start', pay_period_end')
    /\ pc' = "col1"
    /\ UNCHANGED <<uploaded_file, previous, df, grouped, total_earnings, number_of_groups,
                   average_earnings, it, display>>

\* with col1: st.markdown(... Total Earnings ...)
RenderCol1 ==
    /\ pc = "col1"
    /\ display' = Append(display, Card("Total Earnings", <<>>, total_earnings))
    /\ pc' = "col2"
    /\ UNCHANGED <<uploaded_file, previous, locals>>

\* with col2: st.markdown(... Daily Avarage ...)
RenderCol2 ==
    /\ pc = "col2"
    /\ display' = Append(display,
                      Card("Daily Avarage", number_of_groups, average_earnings))
    /\ pc' = "col3"
    /\ UNCHANGED <<uploaded_file, previous, locals>>

\* with col3: st.markdown(... This Pay Period ...); strftime raises on NaT
RenderCol3 ==
    /\ pc = "col3"
    /\ IF ~(CanStrftime(pay_period_start) /\ CanStrftime(pay_period_end))
       THEN Raise("NaTType does not support strftime")
       ELSE /\ display' = Append(display,
                   Card("This Pay Period",
                        <<Strftime(pay_period_start), Strftime(pay_period_end)>>,
                        current_pay_period))
            /\ pc' = "separator"
            /\ UNCHANGED <<uploaded_file, previous, locals>>

\* st.markdown("---")
RenderSeparator ==
    /\ pc = "separator"
    /\ display' = Append(display, Separator)
    /\ pc' = "expanders"
    /\ UNCHANGED <<uploaded_file, previous, locals>>

\* one pass of "for name, group in grouped"
RenderExpander ==
    /\ pc = "expanders"
    /\ it < Len(grouped)
    /\ it' = it + 1
    /\ display' = Append(display,
                      Expander(Strftime(grouped[it'].name),
                               SumSeq(Column(grouped[it'].group, "payout")),
                               grouped[it'].group))
    /\ UNCHANGED <<uploaded_file, previous, pc, df, grouped, total_earnings, number_of_groups,
                   average_earnings, most_recent_date, day_of_week,
                   pay_period_start, pay_period_end, current_pay_period>>

\* the loop is exhausted: the run ends
Finish ==
    /\ pc = "expanders"
    /\ it = Len(grouped)
    /\ pc' = "done"
    /\ UNCHANGED <<uploaded_file, previous, locals, display>>

\* a rerun binds no local until it assigns it
ResetLocals ==
    /\ df' = EmptyFile
    /\ grouped' = <<>>
    /\ total_earnings' = 0
    /\ number_of_groups' = 0
    /\ average_earnings' = <<0, 1>>
    /\ most_recent_date' = NaT
    /\ day_of_week' = NaN
    /\ pay_period_start' = NaT
    /\ pay_period_end' = NaT
    /\ current_pay_period' = 0
    /\ it' = 0

\* the user removes the file; the script reruns and shows st.info
RemoveFile ==
    /\ pc = "done"
    /\ uploaded_file' = <<>>
    /\ pc' = "awaiting"
    /\ ResetLocals
    /\ display' = <<Info>>
    /\ previous' = <<>>

\* s with r put after its first k elements
InsertAt(s, k, r) == SubSeq(s, 1, k) \o <<r>> \o SubSeq(s, k + 1, Len(s))

\* the rows whose workDate text to_datetime cannot parse
UnparsableDateRows == {r \in RowTexts : ParseDate(r[1]) = NaT}

\* the user uploads the same table again with one more row, whose workDate
\* is unparsable, somewhere in it; the script reruns on a clean page
Reupload ==
    /\ pc = "done"
    /\ uploaded_file[1].columns # <<>>
    /\ Len(uploaded_file[1].data) <
          (IF uploaded_file[1].columns = GoodHeader THEN MaxRows ELSE MaxRowsBadHeader)
    /\ \E r \in UnparsableDateRows, k \in 0..Len(uploaded_file[1].data) :
          /\ uploaded_file' =
                <<[uploaded_file[1] EXCEPT !.data = InsertAt(@, k, r)]>>
          /\ previous' = <<[display |-> display, added |-> r]>>
    /\ pc' = "read_csv"
    /\ ResetLocals
    /\ display' = <<>>

Next ==
    \/ Upload
    \/ ReadCsv
    \/ CheckColumns
    \/ ConvertPayout
    \/ ConvertDates
    \/ SortValues
    \/ Aggregate
    \/ PayPeriod
    \/ RenderCol1
    \/ RenderCol2
    \/ RenderCol3
    \/ RenderSeparator
    \/ RenderExpander
    \/ Finish
    \/ RemoveFile

Spec == Init /\ [][Next]_vars

\* the runs in which the user also edits the table and uploads it again
NextReupload == Next \/ Reupload

SpecReupload == Init /\ [][NextReupload]_vars


(***************************************************************************)
(* Vocabulary of the properties: the uploaded table as the user wrote it,  *)
(* and what the page shows.                                                *)
(***************************************************************************)
Uploaded == uploaded_file # <<>>

File == uploaded_file[1]

\* both required names are among the header's names, letter for letter
HasBothColumns(f) ==
    {"workDate", "payout"} \subseteq {f.columns[i] : i \in 1..Len(f.columns)}

\* what each text of the input alphabet stands for: its date (NaT when it is
\* unparsable), whether it is a number once '$' and ',' are taken out, and
\* that number
DateOf == [t \in DateTexts |-> ParseDate(t)]

IsAmount == [t \in PayoutTexts |-> IsFloat(StripCurrency(t))]

AmountOf ==
    [t \in PayoutTexts |->
        IF IsFloat(StripCurrency(t)) THEN ToFloat(StripCurrency(t)) ELSE 0]

RawDate(f, i) == DateOf[f.data[i][ColIndex(f, "workDate")]]

RawPayoutParses(f, i) == IsAmount[f.data[i][ColIndex(f, "payout")]]

RawAmount(f, i) == AmountOf[f.data[i][ColIndex(f, "payout")]]

AllPayoutsParse(f) == \A i \in 1..Len(f.data) : RawPayoutParses(f, i)

\* the rows that are valid records, and their dates
ValidRows(f) == {i \in 1..Len(f.data) : RawDate(f, i) # NaT}

ValidDates(f) == {RawDate(f, i) : i \in ValidRows(f)}

RECURSIVE SumAmounts(_, _)
\* the sum of the amounts of the rows S of f
SumAmounts(f, S) ==
    IF S = {} THEN 0
    ELSE LET i == CHOOSE x \in S : TRUE
         IN  RawAmount(f, i) + SumAmounts(f, S \ {i})

MaxOf(S) == CHOOSE d \in S : \A e \in S : e <= d

\* weekdays anchored at Monday, Dec 16, 2024
IsMonday(d) == (d - Ymd2Ord(2024, 12, 16)) % 7 = 0
IsTuesday(d) == (d - Ymd2Ord(2024, 12, 16)) % 7 = 1

Shown(kind) == SelectSeq(display, LAMBDA e : e.kind = kind)

ErrorShown == Shown("error") # <<>>

SummaryPartShown == Shown("card") # <<>> \/ Shown("expander") # <<>>

\* the run ended with the whole summary and no error
Summarised == Uploaded /\ pc = "done" /\ ~ErrorShown

\* the statements after the aggregation, and after the pay-period calculation
Aggregated ==
    \/ pc \in {"pay_period", "col1", "col2", "col3", "separator", "expanders"}
    \/ pc = "done" /\ SummaryPartShown

PayPeriodComputed ==
    \/ pc \in {"col1", "col2", "col3", "separator", "expanders"}
    \/ pc = "done" /\ SummaryPartShown

\* the date an expander is labelled with
SectionDate(e) == ParseDate(e.formatted_date)

SectionDates == [i \in 1..Len(Shown("expander")) |-> SectionDate(Shown("expander")[i])]

\* no local after df has been assigned, df holds the table as read
NothingComputed ==
    /\ df \in {EmptyFile, File}
    /\ grouped = <<>>
    /\ total_earnings = 0 /\ number_of_groups = 0 /\ average_earnings = <<0, 1>>
    /\ most_recent_date = NaT /\ pay_period_start = NaT /\ pay_period_end = NaT
    /\ current_pay_period = 0

\* a page up to the order of the rows inside each expander
RowBag(rows) ==
    [r \in {rows[i] : i \in 1..Len(rows)} |->
        Cardinality({i \in 1..Len(rows) : rows[i] = r})]

Outcome(page) ==
    [i \in 1..Len(page) |->
        IF page[i].kind = "expander"
        THEN [page[i] EXCEPT !.rows = RowBag(@)]
        ELSE page[i]]

(***************************************************************************)
(* Properties.                                                             *)
(***************************************************************************)

\* C1: no state shows an error message together with any part of the
\* summary (a card or a per-day section).
C1_ErrorExcludesSummary == ~(ErrorShown /\ SummaryPartShown)

\* C2: a table with both columns, every payout parsable and no parsable
\* workDate ends without an error message, with total, number of groups and
\* average all 0 and no group.
C2_NoRecordsNoFault ==
    (/\ Uploaded /\ pc = "done"
     /\ HasBothColumns(File) /\ AllPayoutsParse(File) /\ ValidRows(File) = {})
    => /\ ~ErrorShown
       /\ total_earnings = 0 /\ number_of_groups = 0
       /\ average_earnings = <<0, 1>> /\ grouped = <<>>

\* C3: with at least one valid record the pay period is the seven days
\* Tuesday..Monday that contain the most recent record date; a Monday closes
\* its own period.
C3_PayPeriodWindow ==
    (PayPeriodComputed /\ ValidRows(File) # {})
    => /\ most_recent_date = MaxOf(ValidDates(File))
       /\ pay_period_end = pay_period_start + 6
       /\ IsTuesday(pay_period_start)
       /\ IsMonday(pay_period_end)
       /\ pay_period_start <= most_recent_date
       /\ most_recent_date <= pay_period_end
       /\ (IsMonday(most_recent_date) => pay_period_end = most_recent_date)

\* C3 happens: the most recent record is on a Monday and another record is on
\* the Tuesday that opens its period.
C3_Witness ==
    /\ pc = "done" /\ PayPeriodComputed
    /\ IsMonday(most_recent_date)
    /\ pay_period_start \in ValidDates(File)

\* C4: the total is the sum of the per-day totals, the sections have
\* different dates, and the valid records are spread over them, each in the
\* section of its date, none twice and none lost.
C4_TotalIsSumOfGroupTotals ==
    Summarised =>
      LET E == Shown("expander")
      IN  /\ total_earnings = SumSeq([i \in 1..Len(E) |-> E[i].total_payout])
          /\ Shown("card")[1].value = total_earnings
          /\ total_earnings = SumAmounts(File, ValidRows(File))
          /\ \A i, j \in 1..Len(E) : i # j => SectionDate(E[i]) # SectionDate(E[j])
          /\ \A i \in 1..Len(E) :
                /\ \A k \in 1..Len(E[i].rows) :
                      E[i].rows[k][ColIndex(File, "workDate")] = SectionDate(E[i])
                /\ Len(E[i].rows) =
                      Cardinality({r \in ValidRows(File) :
                                      RawDate(File, r) = SectionDate(E[i])})
                /\ E[i].total_payout =
                      SumAmounts(File, {r \in ValidRows(File) :
                                          RawDate(File, r) = SectionDate(E[i])})
          /\ SumSeq([i \in 1..Len(E) |-> Len(E[i].rows)]) = Cardinality(ValidRows(File))

\* C4 happens: a summary with two records of one day in one section.
C4_Witness ==
    /\ Summarised
    /\ \E i \in 1..Len(Shown("expander")) : Len(Shown("expander")[i].rows) = 2
    /\ total_earnings # 0

\* C5 as stated: uploading the table again with one more row whose workDate
\* is unparsable shows the same page (same metrics, groups, summary or error).
C5_ExtraRowChangesNothing ==
    (pc = "done" /\ previous # <<>>)
    => Outcome(display) = Outcome(previous[1].display)

\* C5 amended: rows with an unparsable workDate are in no metric and no
\* group, and uploading the table again with one more such row whose payout
\* parses as a number shows the same page.
C5_ExtraParsableRowChangesNothing ==
    /\ (Aggregated =>
          /\ total_earnings = SumAmounts(File, ValidRows(File))
          /\ number_of_groups = Cardinality(ValidDates(File)))
    /\ (pc = "done" /\ previous # <<>>
           /\ IsAmount[previous[1].added[2]])
       => Outcome(display) = Outcome(previous[1].display)

\* C5 happens: a summary shown again after a row with an unparsable date and
\* a parsable payout was put in front of the table.
C5_Witness ==
    /\ Summarised /\ previous # <<>>
    /\ IsAmount[previous[1].added[2]]
    /\ File.data[1] = previous[1].added
    /\ Shown("expander") # <<>>

C7_SectionsByDateDescending ==
    /\ \A i, j \in 1..Len(SectionDates) : i < j => SectionDates[i] > SectionDates[j]
    /\ (Aggregated =>
          \A i, j \in 1..Len(df.data) :
              i < j => Column(df, "workDate")[i] >= Column(df, "workDate")[j])
    /\ (Summarised =>
          /\ {SectionDates[i] : i \in 1..Len(SectionDates)} = ValidDates(File)
          /\ Len(SectionDates) = Cardinality(ValidDates(File))
          /\ SectionDates = FirstSeen(Column(df, "workDate")))

\* C7 happens: a summary of two days that the table lists oldest first.
C7_Witness ==
    /\ Summarised
    /\ Len(SectionDates) = 2
    /\ ValidRows(File) = {1, 2}
    /\ RawDate(File, 1) < RawDate(File, 2)

C9_PayPeriodTotal ==
    (PayPeriodComputed /\ ValidRows(File) # {})
    => /\ current_pay_period =
            SumAmounts(File, {i \in ValidRows(File) :
                /\ pay_period_start <= RawDate(File, i)
                /\ RawDate(File, i) <= pay_period_end})
       /\ (Summarised => Shown("card")[3].value = current_pay_period)

\* C9 happens: a record with a negative amount on pay_period_start and a
\* record on the day before it.
C9_Witness ==
    /\ Summarised
    /\ \E i, j \in ValidRows(File) :
          /\ RawDate(File, i) = pay_period_start /\ RawAmount(File, i) < 0
          /\ RawDate(File, j) = pay_period_start - 1
    /\ current_pay_period < 0

\* C10: the number of groups is the number of distinct valid dates; the
\* average is total / groups when there is a group, and 0 when there is none.
C10_AverageOverDistinctDates ==
    Aggregated =>
       /\ number_of_groups = Cardinality(ValidDates(File))
       /\ total_earnings = SumAmounts(File, ValidRows(File))
       /\ IF number_of_groups > 0
          THEN /\ average_earnings[2] > 0
               /\ average_earnings[1] * number_of_groups
                     = total_earnings * average_earnings[2]
          ELSE average_earnings = <<0, 1>>

\* C10 happens: two records of one day, so the divisor 1 is not the number of
\* records.
C10_Witness ==
    /\ Aggregated
    /\ number_of_groups = 1
    /\ Cardinality(ValidRows(File)) = 2
    /\ total_earnings # 0

=============================================================================
